---- MODULE Spec2Model ----
(***************************************************************************)
(* A model of src/pydance/streaming/stream_core.cpp: the bounded ring      *)
(* buffer, the network scheduler, the stream protocol (packetizer and      *)
(* chunk tree), the media engine (task-distribution core + processing      *)
(* pipeline), the edge manager and the stream server's event loop; and of  *)
(* src/pydance/core/templating/template_core.cpp: the template engine's    *)
(* worker threads.                                                         *)
(*                                                                         *)
(* Twelve specifications share the module:                                 *)
(*   Spec         QuantumMediaEngine: process_video_frame -> QuantumIOCore *)
(*                -> ProcessingPipeline, and the core's destruction, with  *)
(*                concurrent callers                                       *)
(*   SpecPipeline the same engine, one caller submitting enough frames to  *)
(*                fill the first stage's buffer                            *)
(*   SpecRing     ConcurrentRingBuffer driven by push/pop calls            *)
(*   SpecHistory  NetworkAwareScheduler fed a long run of samples          *)
(*   SpecSched    NetworkAwareScheduler fed sequentially, and              *)
(*                QuantumStreamProtocol::generate_packets                  *)
(*   SpecSchedRace  threads inside add_metrics_sample at the same time     *)
(*   SpecChunks   ChunkQuadTree: insert_chunk, get_optimal_chunk_sequence  *)
(*   SpecEdge     QuantumEdgeManager called by concurrent threads          *)
(*   SpecShutdown the engine with one caller, under fair scheduling of the *)
(*                workers and of the destructor                            *)
(*   SpecServer   QuantumStreamServer::start_server and its clients        *)
(*   SpecServerTimed  the same server under fair scheduling, with a clock  *)
(*   SpecTemplate QuantumTemplateEngine: worker_loop, submit_task and the  *)
(*                destructor, under fair scheduling                        *)
(* Each specification leaves the other components' variables untouched.    *)
(***************************************************************************)
EXTENDS Integers, Sequences, FiniteSets, TLC

\* ------------------------------------------------------------------ bounds
\* Largest capacity a ring buffer of SpecRing is constructed with.
MaxCap == 3
\* Number of push calls made on the ring buffer of SpecRing.
MaxPushes == 4
\* Items pushed in SpecRing are drawn from 1..MaxItem.
MaxItem == 2
\* Number of samples fed to the scheduler in SpecHistory.
MaxHistSamples == 102

\* Number of frames handed to process_video_frame in Spec.
MaxFrames == 2
\* Number of frames handed to process_video_frame in SpecPipeline, enough to
\* fill the first stage's buffer.
PipelineFrames == 5
\* Number of threads calling process_video_frame concurrently in Spec.
NumProducers == 2
\* QuantumIOCore's num_threads (std::thread::hardware_concurrency()) in Spec.
NUM_IO_THREADS == 2

\* SpecSched: how many samples are fed to the scheduler.
MaxSchedSamples == 2

\* SpecSchedRace: how many threads call add_metrics_sample concurrently.
NumSchedThreads == 2

\* SpecChunks: how many chunks are inserted into the tree.
MaxChunks == 3

\* SpecEdge: how many edge node ids there are.
NumEdgeNodes == 2

\* SpecServer: how many clients connect to the listening socket.
MaxArrivals == 2
\* SpecServer: how many times a client writes to its connection.
MaxSends == 1
\* SpecServerTimed: the last minute of the clock.
MaxNow == 6
\* SpecServerTimed: minutes without activity after which a connection counts
\* as inactive.
IdleThreshold == 1

\* SpecTemplate: QuantumTemplateEngine's num_threads.
NumTplWorkers == 2
\* SpecTemplate: how many tasks are handed to submit_task.
MaxTplTasks == 2

\* ------------------------------------------------------- program constants
\* NetworkAwareScheduler::metrics_buffer_{100}
MetricsCapacity == 100

\* handle_read_event: char buffer[4096]
ReadBufferSize == 4096

\* handle_maintenance_tasks: minutes between two maintenance runs
MaintenanceInterval == 5

\* The value of a moved-from buffer slot, and of a value-initialised slot of a
\* buffer of frames (buffer_(capacity) holds empty vectors).
NoItem == 0

\* =================================================== ConcurrentRingBuffer
\* Every member function holds mutex_ for its whole body (unique_lock in
\* push/pop, shared_lock in size), so each call is one atomic step and the
\* calls of any number of threads are totally ordered.

\* ConcurrentRingBuffer(size_t capacity) : capacity_(capacity), buffer_(capacity)
\* `init` is the value-initialised T every slot starts with.
RB_new(capacity, init) ==
    [capacity_ |-> capacity,
     buffer_   |-> [i \in 0..(capacity - 1) |-> init],
     head_     |-> 0,
     tail_     |-> 0]

\* Mutant: the tail advances without the reduction modulo capacity_.
RB_next_tail_no_mod(rb) == rb.tail_ + 1

\* size_t next_tail = (tail_ + 1) % capacity_;
RB_next_tail(rb) == (rb.tail_ + 1) % rb.capacity_

\* push's return value: if (next_tail == head_) return false; ... return true;
RB_push_ok(rb) == RB_next_tail(rb) # rb.head_

\* The buffer after push(item).
RB_push(rb, item) ==
    IF ~RB_push_ok(rb) THEN rb
    ELSE [rb EXCEPT !.buffer_[rb.tail_] = item, !.tail_ = RB_next_tail(rb)]

\* pop's return value: if (head_ == tail_) return false; ... return true;
RB_pop_ok(rb) == rb.head_ # rb.tail_

\* Mutant: pop hands out the newest item (the slot before tail_).
RB_pop_item_newest(rb) ==
    rb.buffer_[(rb.tail_ + rb.capacity_ - 1) % rb.capacity_]

\* The item pop moves into its out-parameter: item = std::move(buffer_[head_])
RB_pop_item(rb) == rb.buffer_[rb.head_]

\* The buffer after a pop: the slot is moved-from, head_ advances.  (A slot
\* is never read again before push overwrites it.)
RB_pop(rb) ==
    IF ~RB_pop_ok(rb) THEN rb
    ELSE [rb EXCEPT !.buffer_[rb.head_] = NoItem,
                    !.head_ = (rb.head_ + 1) % rb.capacity_]

\* Mutant: size() without the final reduction modulo capacity_.
RB_size_no_mod(rb) == rb.tail_ - rb.head_ + rb.capacity_

\* Mutant: size() reports the tail index.
RB_size_tail_only(rb) == rb.tail_

\* size(): (tail_ - head_ + capacity_) % capacity_.  The size_t subtraction
\* may wrap, but adding capacity_ wraps back: the sum is the exact integer.
RB_size(rb) == (rb.tail_ - rb.head_ + rb.capacity_) % rb.capacity_

\* The stored items, oldest first: slots head_, head_+1, ... up to tail_.
RB_contents(rb) ==
    [k \in 1..RB_size(rb) |-> rb.buffer_[(rb.head_ + k - 1) % rb.capacity_]]

VARIABLES
    ring,      \* SpecRing: the ring buffer under test
    pushed,    \* SpecRing: items of the successful pushes, in order
    popped,    \* SpecRing: items returned by the successful pops, in order
    nPush,     \* SpecRing: push calls made so far
    lastOp,    \* SpecRing: the last call, its result and the buffer before it
    metrics_buffer_,       \* SpecHistory: the scheduler's sample history
    smoothed_bandwidth_,   \* SpecHistory: <<numerator, denominator>>
    smoothed_latency_,     \* SpecHistory: <<numerator, denominator>>
    nSamples,              \* SpecHistory: add_metrics_sample calls so far
    running_,        \* Spec: QuantumIOCore::running_
    nodes,           \* Spec: the heap of live queue nodes, id -> [next, task]
    qhead,           \* Spec: head_ of each task queue
    qtail,           \* Spec: tail_ of each task queue
    nextFrame,       \* Spec: number of the next process_video_frame call
    prod,            \* Spec: each producer thread's position inside submit
    worker,          \* Spec: each io_worker's position and the task it holds
    executed,        \* Spec: how many times each task's closure was invoked
    dtor,            \* Spec: position of ~QuantumIOCore
    stages_,         \* Spec: the video pipeline's stage buffers
    processor_calls, \* Spec: <<stage, frame>> of every Stage::processor call
    signalled,       \* Spec: frames whose rejection was reported to a caller
    packets,         \* SpecSched: what the last generate_packets call returned
    payload,         \* SpecSched: media_data.size() of that call
    chunk_size,      \* SpecSched: chunk_size of that call (0: no call yet)
    sthreads,        \* SpecSchedRace: threads inside add_metrics_sample
    chunk_nodes_,    \* SpecChunks: ChunkQuadTree::nodes_
    chunk_sequence,  \* SpecChunks: last get_optimal_chunk_sequence result
    sequenced,       \* SpecChunks: whether that call was the last call
    edge_nodes_,     \* SpecEdge: QuantumEdgeManager::nodes_
    nodes_mutex_,    \* SpecEdge: the shared_mutex guarding it
    ethreads,        \* SpecEdge: threads calling into the edge manager
    srv,             \* SpecServer: the event-loop thread and server members
    connections_,    \* SpecServer: ConnectionPool::connections_
    sockets,         \* SpecServer: the kernel's open client sockets
    listenq,         \* SpecServer: the listening socket's accept queue
    batch,           \* SpecServer: events epoll_wait returned, not yet handled
    handled,         \* SpecServer: the last handler invocation
    tpl_running_,    \* SpecTemplate: QuantumTemplateEngine::running_
    task_queue_,     \* SpecTemplate: the queued tasks, oldest first
    queue_mutex_,    \* SpecTemplate: the thread holding the mutex, or NoThread
    queue_cv_,       \* SpecTemplate: the workers blocked on the condition variable
    worker_threads_, \* SpecTemplate: each worker's position in worker_loop
    submitter,       \* SpecTemplate: the thread calling submit_task
    tpl_dtor         \* SpecTemplate: the thread inside the destructor

ringVars == <<ring, pushed, popped, nPush, lastOp>>
schedVars == <<metrics_buffer_, smoothed_bandwidth_, smoothed_latency_, nSamples>>
engineVars ==
    <<running_, nodes, qhead, qtail, nextFrame, prod, worker, executed, dtor,
      stages_, processor_calls, signalled>>
protoVars == <<packets, payload, chunk_size>>
raceVars == <<sthreads>>
chunkVars == <<chunk_nodes_, chunk_sequence, sequenced>>
edgeVars == <<edge_nodes_, nodes_mutex_, ethreads>>
\* The variables of the components other than the ring, the scheduler and
\* the engine.
templVars ==
    <<tpl_running_, task_queue_, queue_mutex_, queue_cv_, worker_threads_,
      submitter, tpl_dtor>>
serverVars == <<srv, connections_, sockets, listenq, batch, handled>>
extVars == <<protoVars, raceVars, chunkVars, edgeVars, serverVars, templVars>>
vars == <<ringVars, schedVars, engineVars, extVars>>

\* ---------------------------------------------------------------- SpecRing
NoOp == [op |-> "none", ok |-> FALSE, item |-> NoItem, held |-> 0,
         before |-> RB_new(1, NoItem)]

\* Items the buffer holds: successful pushes not yet popped.
Held == Len(pushed) - Len(popped)

RingInit ==
    /\ \E c \in 1..MaxCap : ring = RB_new(c, NoItem)
    /\ pushed = <<>>
    /\ popped = <<>>
    /\ nPush = 0
    /\ lastOp = NoOp

\* One call of push(item) by any thread.
Push(item) ==
    /\ nPush < MaxPushes
    /\ nPush' = nPush + 1
    /\ ring' = RB_push(ring, item)
    /\ pushed' = IF RB_push_ok(ring) THEN Append(pushed, item) ELSE pushed
    /\ lastOp' = [op |-> "push", ok |-> RB_push_ok(ring), item |-> item,
                  held |-> Held, before |-> ring]
    /\ UNCHANGED <<popped, schedVars, engineVars, extVars>>

\* One call of pop(item) by any thread.
Pop ==
    /\ Len(popped) < MaxPushes
    /\ ring' = RB_pop(ring)
    /\ popped' = IF RB_pop_ok(ring) THEN Append(popped, RB_pop_item(ring))
                 ELSE popped
    /\ lastOp' = [op |-> "pop", ok |-> RB_pop_ok(ring),
                  item |-> IF RB_pop_ok(ring) THEN RB_pop_item(ring) ELSE NoItem,
                  held |-> Held, before |-> ring]
    /\ UNCHANGED <<pushed, nPush, schedVars, engineVars, extVars>>

\* ------------------------------------------------- NetworkAwareScheduler
\* struct NetworkMetrics, value-initialised.
ZeroMetrics ==
    [bandwidth |-> 0, latency |-> 0, packet_loss |-> 0, jitter |-> 0,
     timestamp |-> 0]

RECURSIVE GCD(_, _)
GCD(a, b) == IF b = 0 THEN a ELSE GCD(b, a % b)

Abs(x) == IF x < 0 THEN 0 - x ELSE x

\* A double is modelled as an exact fraction <<numerator, denominator>> in
\* lowest terms (rounding is not modelled).
Frac(n, d) ==
    LET g == GCD(Abs(n), d) IN <<n \div g, d \div g>>

\* sample + (1 - alpha) * current: the sample is not weighted by alpha.
Ewma_unweighted(sample, current) ==
    Frac(5 * sample * current[2] + 4 * current[1], 5 * current[2])

\* alpha * sample + (1 - alpha) * current with alpha = 0.2 = 1/5, for an
\* integer-valued sample.
Ewma(sample, current) ==
    Frac(sample * current[2] + 4 * current[1], 5 * current[2])

\* metrics_buffer_.push(NetworkMetrics(metrics)): push's result is discarded.
HistoryAfter(buf, metrics) == RB_push(buf, metrics)

\* add_metrics_sample(metrics): push onto the history, then update_metrics.
AddMetricsSample(metrics) ==
    /\ metrics_buffer_' = HistoryAfter(metrics_buffer_, metrics)
    /\ smoothed_bandwidth_' = Ewma(metrics.bandwidth, smoothed_bandwidth_)
    /\ smoothed_latency_' = Ewma(metrics.latency, smoothed_latency_)
    /\ nSamples' = nSamples + 1
    /\ UNCHANGED <<ringVars, engineVars, extVars>>

SchedInit ==
    /\ metrics_buffer_ = RB_new(MetricsCapacity, ZeroMetrics)
    /\ smoothed_bandwidth_ = <<0, 1>>
    /\ smoothed_latency_ = <<0, 1>>
    /\ nSamples = 0

\* ============================================================ QuantumIOCore
\* nullptr, as a node pointer and as an empty std::function.
Null == 0

Queues == 0..(NUM_IO_THREADS - 1)
Producers == 1..NumProducers

\* The node `new Node` yields for task t is named t; the dummy node each
\* queue is constructed with (head_(new Node{nullptr, nullptr})) is named
\* -(q + 1).
Dummy(q) == 0 - (q + 1)

\* LockFreeMPSCQueue::size_approx(): return 0; // Simplified
size_approx(q) == 0

\* get_optimal_queue's result for the two sampled indices.
get_optimal_queue(q1, q2) ==
    IF size_approx(q1) < size_approx(q2) THEN q1 ELSE q2

\* Tasks linked into queue q and not yet popped (the chain after head_).
RECURSIVE ChainLen(_)
ChainLen(n) ==
    IF nodes[n].next = Null THEN 0 ELSE 1 + ChainLen(nodes[n].next)

Pending(q) == ChainLen(qhead[q])

\* Mutant: pop returns a copy of the next task but neither advances head_
\* nor empties the node (a peek).
Q_pop_peek(q) ==
    LET old_head == qhead[q]
        next_head == nodes[old_head].next
    IN IF next_head # Null
       THEN [task |-> nodes[next_head].task, head |-> old_head, nodes |-> nodes]
       ELSE [task |-> Null, head |-> old_head, nodes |-> nodes]

\* LockFreeMPSCQueue::pop() by the queue's one consumer: the task returned,
\* the new head_, and the heap after `std::move(next_head->task)` (the
\* node's task is left empty) and `delete old_head`.  Only the load of
\* old_head->next reads what producers write, so the call is one step.
Q_pop(q) ==
    LET old_head == qhead[q]
        next_head == nodes[old_head].next
    IN IF next_head # Null
       THEN [task |-> nodes[next_head].task,
             head |-> next_head,
             nodes |-> [n \in (DOMAIN nodes) \ {old_head} |->
                          IF n = next_head
                          THEN [nodes[n] EXCEPT !.task = Null]
                          ELSE nodes[n]]]
       ELSE [task |-> Null, head |-> old_head, nodes |-> nodes]

\* ====================================================== ProcessingPipeline
\* setup_video_pipeline: add_stage(5, ...), add_stage(3, ...), add_stage(2, ...)
VideoStageCapacities == <<5, 3, 2>>

\* ProcessingPipeline::process(data): if (!stages_.empty())
\* stages_[0].buffer.push(std::move(data)); the result of push is discarded.
Pipeline_process(st, data) ==
    IF st = <<>> THEN st
    ELSE [st EXCEPT ![1] = RB_push(st[1], data)]

\* ------------------------------------------------------ QuantumMediaEngine
\* A thread that is not inside submit.
IdleProducer ==
    [pc |-> "idle", q1 |-> 0, q2 |-> 0, old_tail |-> Null, new_node |-> Null]

EngineInit(producers, maxFrames) ==
    /\ running_ = TRUE
    /\ nodes = [n \in {Dummy(q) : q \in Queues} |-> [next |-> Null, task |-> Null]]
    /\ qhead = [q \in Queues |-> Dummy(q)]
    /\ qtail = [q \in Queues |-> Dummy(q)]
    /\ nextFrame = 1
    /\ prod = [p \in producers |-> IdleProducer]
    /\ worker = [w \in Queues |-> [pc |-> "check", task |-> Null]]
    /\ executed = [t \in 1..maxFrames |-> 0]
    /\ dtor = [pc |-> "alive", i |-> 0]
    /\ stages_ = [k \in 1..Len(VideoStageCapacities) |->
                    RB_new(VideoStageCapacities[k], NoItem)]
    /\ processor_calls = <<>>
    /\ signalled = {}

\* process_video_frame -> io_core_.submit(closure), first half: the two
\* queue indices are sampled, get_optimal_queue picks one, push allocates the
\* node and exchanges it into tail_.  The closure of frame t is task t.
SubmitBegin(p) ==
    /\ prod[p].pc = "idle"
    /\ dtor.pc # "done"
    /\ nextFrame \in DOMAIN executed
    /\ \E q1 \in Queues, q2 \in Queues :
          LET queue_idx == get_optimal_queue(q1, q2)
              t == nextFrame
          IN /\ nodes' = [n \in (DOMAIN nodes) \cup {t} |->
                            IF n = t THEN [next |-> Null, task |-> t]
                            ELSE nodes[n]]
             /\ qtail' = [qtail EXCEPT ![queue_idx] = t]
             /\ prod' = [prod EXCEPT ![p] =
                            [pc |-> "link", q1 |-> q1, q2 |-> q2,
                             old_tail |-> qtail[queue_idx], new_node |-> t]]
    /\ nextFrame' = nextFrame + 1
    /\ UNCHANGED <<running_, qhead, worker, executed, dtor, stages_,
                   processor_calls, signalled,
                   ringVars, schedVars, extVars>>

\* submit, second half: old_tail->next.store(new_node); submit returns.
SubmitLink(p) ==
    /\ prod[p].pc = "link"
    /\ nodes' = [nodes EXCEPT ![prod[p].old_tail].next = prod[p].new_node]
    /\ prod' = [prod EXCEPT ![p] = IdleProducer]
    /\ UNCHANGED <<running_, qhead, qtail, nextFrame, worker, executed, dtor,
                   stages_, processor_calls, signalled,
                   ringVars, schedVars, extVars>>

\* Mutant: the loop condition is taken to be true whatever running_ holds.
WorkerCheck_ignoring_flag(w) ==
    /\ worker[w].pc = "check"
    /\ worker' = [worker EXCEPT ![w].pc = "pop"]
    /\ UNCHANGED <<running_, nodes, qhead, qtail, nextFrame, prod, executed, dtor,
                   stages_, processor_calls, signalled,
                   ringVars, schedVars, extVars>>

\* io_worker: while (running_.load(acquire))
WorkerCheck(w) ==
    /\ worker[w].pc = "check"
    /\ worker' = [worker EXCEPT ![w].pc = IF running_ THEN "pop" ELSE "exited"]
    /\ UNCHANGED <<running_, nodes, qhead, qtail, nextFrame, prod, executed, dtor,
                   stages_, processor_calls, signalled,
                   ringVars, schedVars, extVars>>

\* io_worker: if (auto task = task_queues_[queue_idx].pop()) ... else yield()
WorkerPop(w) ==
    /\ worker[w].pc = "pop"
    /\ LET r == Q_pop(w)
       IN /\ nodes' = r.nodes
          /\ qhead' = [qhead EXCEPT ![w] = r.head]
          /\ worker' = [worker EXCEPT ![w] =
                           IF r.task # Null THEN [pc |-> "run", task |-> r.task]
                           ELSE [pc |-> "check", task |-> Null]]
    /\ UNCHANGED <<running_, qtail, nextFrame, prod, executed, dtor, stages_,
                   processor_calls, signalled,
                   ringVars, schedVars, extVars>>

\* io_worker: task(), the closure of process_video_frame:
\* video_pipeline_.process(std::move(data)).
WorkerRun(w) ==
    /\ worker[w].pc = "run"
    /\ executed' = [executed EXCEPT ![worker[w].task] = @ + 1]
    /\ stages_' = Pipeline_process(stages_, worker[w].task)
    /\ worker' = [worker EXCEPT ![w] = [pc |-> "check", task |-> Null]]
    /\ UNCHANGED <<running_, nodes, qhead, qtail, nextFrame, prod, dtor,
                   processor_calls, signalled,
                   ringVars, schedVars, extVars>>

\* ~QuantumIOCore: running_.store(false, release)
DtorBegin ==
    /\ dtor.pc = "alive"
    /\ running_' = FALSE
    /\ dtor' = [pc |-> "joining", i |-> 0]
    /\ UNCHANGED <<nodes, qhead, qtail, nextFrame, prod, worker, executed,
                   stages_, processor_calls, signalled,
                   ringVars, schedVars, extVars>>

\* ~QuantumIOCore: io_threads_[i].join() returns once worker i has left its
\* loop; after the last join the destructor returns.
DtorJoin ==
    /\ dtor.pc = "joining"
    /\ worker[dtor.i].pc = "exited"
    /\ dtor' = IF dtor.i + 1 = NUM_IO_THREADS THEN [pc |-> "done", i |-> dtor.i + 1]
               ELSE [pc |-> "joining", i |-> dtor.i + 1]
    /\ UNCHANGED <<running_, nodes, qhead, qtail, nextFrame, prod, worker,
                   executed, stages_, processor_calls, signalled,
                   ringVars, schedVars, extVars>>

EngineNext ==
    \/ \E p \in DOMAIN prod : SubmitBegin(p)
    \/ \E p \in DOMAIN prod : SubmitLink(p)
    \/ \E w \in Queues : WorkerCheck(w)
    \/ \E w \in Queues : WorkerPop(w)
    \/ \E w \in Queues : WorkerRun(w)
    \/ DtorBegin
    \/ DtorJoin

\* The other specifications construct no engine.
EngineIdle ==
    /\ running_ = FALSE
    /\ nodes = <<>>
    /\ qhead = <<>>
    /\ qtail = <<>>
    /\ nextFrame = 1
    /\ prod = <<>>
    /\ worker = <<>>
    /\ executed = <<>>
    /\ dtor = [pc |-> "done", i |-> 0]
    /\ stages_ = <<>>
    /\ processor_calls = <<>>
    /\ signalled = {}

\* The other specifications construct no scheduler.
SchedIdle ==
    /\ metrics_buffer_ = RB_new(1, ZeroMetrics)
    /\ smoothed_bandwidth_ = <<0, 1>>
    /\ smoothed_latency_ = <<0, 1>>
    /\ nSamples = 0

\* The other specifications construct no ring buffer of their own.
RingIdle ==
    /\ ring = RB_new(1, NoItem)
    /\ pushed = <<>>
    /\ popped = <<>>
    /\ nPush = 0
    /\ lastOp = NoOp

\* The other specifications construct no protocol object.
ProtoIdle ==
    /\ packets = <<>>
    /\ payload = 0
    /\ chunk_size = 0

\* No thread is inside add_metrics_sample.
RaceIdle == sthreads = <<>>

ChunkIdle ==
    /\ chunk_nodes_ = <<>>
    /\ chunk_sequence = <<>>
    /\ sequenced = FALSE

EdgeIdle ==
    /\ edge_nodes_ = <<>>
    /\ nodes_mutex_ = [readers |-> {}, writer |-> 0]
    /\ ethreads = <<>>

\* No server was started.
ServerIdle ==
    /\ srv = <<>>
    /\ connections_ = <<>>
    /\ sockets = <<>>
    /\ listenq = 0
    /\ batch = {}
    /\ handled = <<>>

\* No template engine was constructed.
TemplIdle ==
    /\ tpl_running_ = FALSE
    /\ task_queue_ = <<>>
    /\ queue_mutex_ = 0
    /\ queue_cv_ = {}
    /\ worker_threads_ = <<>>
    /\ submitter = <<>>
    /\ tpl_dtor = <<>>

ExtIdle ==
    ProtoIdle /\ RaceIdle /\ ChunkIdle /\ EdgeIdle /\ ServerIdle /\ TemplIdle

\* ------------------------------------------------------------------- Spec
\* The media engine with NumProducers threads submitting MaxFrames frames.
Init == EngineInit(Producers, MaxFrames) /\ RingIdle /\ SchedIdle /\ ExtIdle

Next == EngineNext

Spec == Init /\ [][Next]_vars

\* ------------------------------------------------------------ SpecShutdown
\* The engine of Spec, with one caller, and its threads scheduled fairly:
\* every io_worker thread keeps taking steps (a task it runs terminates), and the thread
\* inside the destructor returns from a join whose thread has finished.
\* Whether and when the destructor is called is left open.
WorkerStep(w) == WorkerCheck(w) \/ WorkerPop(w) \/ WorkerRun(w)

EngineFairness ==
    /\ \A w \in Queues : WF_vars(WorkerStep(w))
    /\ WF_vars(DtorJoin)

\* One thread calls process_video_frame.
InitShutdown ==
    EngineInit({1}, MaxFrames) /\ RingIdle /\ SchedIdle /\ ExtIdle

SpecShutdown == InitShutdown /\ [][Next]_vars /\ EngineFairness

\* ------------------------------------------------------------ SpecPipeline
\* The media engine with one caller submitting PipelineFrames frames in order.
InitPipeline ==
    EngineInit({1}, PipelineFrames) /\ RingIdle /\ SchedIdle /\ ExtIdle

SpecPipeline == InitPipeline /\ [][Next]_vars

\* ---------------------------------------------------------------- SpecRing
RingNext ==
    \/ \E item \in 1..MaxItem : Push(item)
    \/ Pop

InitRing == RingInit /\ SchedIdle /\ EngineIdle /\ ExtIdle

SpecRing == InitRing /\ [][RingNext]_vars

\* ------------------------------------------------------------- SpecHistory
\* The scheduler is fed MaxHistSamples samples, stamped 1, 2, 3, ... by the
\* caller's clock, so that each sample of the history can be told apart.
HistorySample(bw, lat) ==
    [bandwidth |-> bw, latency |-> lat, packet_loss |-> 0, jitter |-> 0,
     timestamp |-> nSamples + 1]

HistoryNext ==
    /\ nSamples < MaxHistSamples
    /\ \E bw \in {0} : AddMetricsSample(HistorySample(bw, 0))

InitHistory == RingIdle /\ SchedInit /\ EngineIdle /\ ExtIdle

SpecHistory == InitHistory /\ [][HistoryNext]_vars

\* Timestamps of the samples the history holds.
HistoryStamps ==
    {RB_contents(metrics_buffer_)[k].timestamp :
        k \in 1..RB_size(metrics_buffer_)}

\* --------------------------------------------------------------- SpecSched
\* One NetworkAwareScheduler fed sequentially, and a QuantumStreamProtocol
\* that packetizes payloads.  The protocol reads its scheduler_ member, an
\* object of the same class; it is modelled in every state the class can
\* reach (the state of a fresh object is the initial state).

\* Sampled bandwidths in Mbps (one negative, one huge) and latencies in ms.
BwSamples == {0 - 25, 0, 7, 2000}

LatSamples == {0, 25, 5000}

\* media_data.size() of the payloads handed to generate_packets.
PayloadSizes == {0, 1, 1024, 1025, 6145, 65537}

Min(a, b) == IF a < b THEN a ELSE b

Max(a, b) == IF a < b THEN b ELSE a

\* a <= b on fractions (denominators are positive).
FLeq(a, b) == a[1] * b[2] <= b[1] * a[2]

FMax(a, b) == IF FLeq(a, b) THEN b ELSE a

FMin(a, b) == IF FLeq(a, b) THEN a ELSE b

FSub(a, b) == Frac(a[1] * b[2] - b[1] * a[2], a[2] * b[2])

\* Product, reducing crosswise first to keep the intermediate values small.
FMul(a, b) ==
    LET g1 == GCD(Abs(a[1]), b[2])
        g2 == GCD(Abs(b[1]), a[2])
    IN Frac((a[1] \div g1) * (b[1] \div g2), (a[2] \div g2) * (b[2] \div g1))

\* Conversion of a double to an integer type discards the fraction.
Trunc(x) ==
    IF x[1] >= 0 THEN x[1] \div x[2] ELSE 0 - ((0 - x[1]) \div x[2])

\* std::max(300, std::min(optimal_bitrate, 20000)) without the std::min.
bitrate_clamp_no_ceiling(optimal_bitrate) == Max(300, optimal_bitrate)

\* std::max(300, std::min(optimal_bitrate, 20000))
bitrate_clamp(optimal_bitrate) == Max(300, Min(optimal_bitrate, 20000))

\* available_bw * 1000 * safety_factor * 0.8 before the cast (the product is
\* exact here, so the factors are grouped as bw * (800 * safety_factor)).
raw_bitrate ==
    LET available_bw == smoothed_bandwidth_
        current_latency == smoothed_latency_
        safety_factor ==
            FMax(<<7, 10>>, FSub(<<1, 1>>, FMul(current_latency, <<1, 100>>)))
    IN FMul(available_bw, FMul(<<800, 1>>, safety_factor))

\* calculate_optimal_bitrate(); the product stays within int for the sampled
\* values, so static_cast<int> is the truncation.
calculate_optimal_bitrate == bitrate_clamp(Trunc(raw_bitrate))

\* (bandwidth * 1000 * optimal_size_ms) / 8000 before the cast.
raw_chunk_size ==
    LET latency == smoothed_latency_
        bandwidth == smoothed_bandwidth_
        optimal_size_ms ==
            FMax(<<100, 1>>, FMin(<<2000, 1>>, FMul(latency, <<2, 1>>)))
    IN FMul(FMul(bandwidth, optimal_size_ms), <<1, 8>>)

\* Values a size_t can take when the conversion is undefined.
SizeTValues == {0, 1023, 1024, 4096, 65536, 65537}

\* static_cast<size_t>(x): the truncation when it is representable (x > -1),
\* undefined otherwise, so any size_t.
CastSizeT(x) == IF x[1] > 0 - x[2] THEN {Trunc(x)} ELSE SizeTValues

\* std::max(1024ul, std::min(chunk_size, 65536ul)) without the std::min.
chunk_clamp_no_ceiling(chunk) == Max(1024, chunk)

\* std::max(1024ul, std::min(chunk_size, 65536ul))
chunk_clamp(chunk) == Max(1024, Min(chunk, 65536))

\* calculate_optimal_chunk_size(): the values it can return in this state.
calculate_optimal_chunk_size ==
    {chunk_clamp(c) : c \in CastSizeT(raw_chunk_size)}

\* calculate_chunk_priority(position, total_size)
calculate_chunk_priority(position, total_size) ==
    IF position % 100 = 0 THEN 255
    ELSE IF position % 10 = 0 THEN 200
    ELSE 100

\* end = i + chunk_size, without the std::min.
packet_end_no_min(i, chunk, size) == i + chunk

\* size_t end = std::min(i + chunk_size, media_data.size());
packet_end(i, chunk, size) == Min(i + chunk, size)

\* The loop of generate_packets from offset i on, acc being the packets
\* pushed so far.  A packet's data is kept as its offset and its length.
RECURSIVE generate_loop(_, _, _, _, _)
generate_loop(i, size, chunk, stream_id, acc) ==
    IF i >= size THEN acc
    ELSE generate_loop(i + chunk, size, chunk, stream_id,
            Append(acc,
                [stream_id |-> stream_id,
                 chunk_id |-> i \div chunk,
                 sequence_number |-> Len(acc),
                 offset |-> i,
                 length |-> packet_end(i, chunk, size) - i,
                 priority |-> calculate_chunk_priority(i, size)]))

\* generate_packets(media_data, stream_id) with media_data.size() = size.
GeneratePackets(size, stream_id) ==
    /\ \E chunk \in calculate_optimal_chunk_size :
          /\ chunk_size' = chunk
          /\ packets' = generate_loop(0, size, chunk, stream_id, <<>>)
    /\ payload' = size
    /\ UNCHANGED <<ringVars, schedVars, engineVars, raceVars, chunkVars,
                   edgeVars,
                   serverVars, templVars>>

SchedSample(bw, lat) ==
    [bandwidth |-> bw, latency |-> lat, packet_loss |-> 0, jitter |-> 0,
     timestamp |-> nSamples + 1]

FeedSample ==
    /\ nSamples < MaxSchedSamples
    /\ \E bw \in BwSamples, lat \in LatSamples :
          AddMetricsSample(SchedSample(bw, lat))

Packetize == \E size \in PayloadSizes : GeneratePackets(size, 1)

SchedNext ==
    \/ FeedSample
    \/ Packetize

InitSched == RingIdle /\ SchedInit /\ EngineIdle /\ ExtIdle

SpecSched == InitSched /\ [][SchedNext]_vars

\* Bandwidths of the samples fed so far, oldest first (the history holds
\* them all while fewer than its capacity were fed).
FedBandwidths ==
    [k \in 1..RB_size(metrics_buffer_) |->
        RB_contents(metrics_buffer_)[k].bandwidth]

\* ----------------------------------------------------------- SpecSchedRace
\* Threads calling add_metrics_sample on one scheduler at the same time.  The
\* history push is one step (it holds the buffer's mutex); update_metrics is
\* a load and a store of each atomic, with the new value computed between.

SchedThreads == 1..NumSchedThreads

RaceBwSamples == {0, 5, 10}

RaceLatSamples == {0, 10}

IdleCaller ==
    [pc |-> "idle", metrics |-> ZeroMetrics,
     current_bw |-> <<0, 1>>, current_lat |-> <<0, 1>>]

\* Thread t enters add_metrics_sample(metrics): metrics_buffer_.push.
RaceCall(t, metrics) ==
    /\ sthreads[t].pc = "idle"
    /\ metrics_buffer_' = HistoryAfter(metrics_buffer_, metrics)
    /\ nSamples' = nSamples + 1
    /\ sthreads' = [sthreads EXCEPT ![t].pc = "load_bw",
                                     ![t].metrics = metrics]
    /\ UNCHANGED <<smoothed_bandwidth_, smoothed_latency_>>
    /\ UNCHANGED <<ringVars, engineVars, protoVars, chunkVars, edgeVars,
                   serverVars, templVars>>

\* double current_bw = smoothed_bandwidth_.load();
RaceLoadBw(t) ==
    /\ sthreads[t].pc = "load_bw"
    /\ sthreads' = [sthreads EXCEPT ![t].pc = "store_bw",
                                     ![t].current_bw = smoothed_bandwidth_]
    /\ UNCHANGED <<schedVars, ringVars, engineVars, protoVars, chunkVars,
                   edgeVars,
                   serverVars, templVars>>

\* smoothed_bandwidth_.store(alpha * bandwidth + (1 - alpha) * current_bw);
RaceStoreBw(t) ==
    /\ sthreads[t].pc = "store_bw"
    /\ smoothed_bandwidth_' =
          Ewma(sthreads[t].metrics.bandwidth, sthreads[t].current_bw)
    /\ sthreads' = [sthreads EXCEPT ![t].pc = "load_lat"]
    /\ UNCHANGED <<metrics_buffer_, smoothed_latency_, nSamples>>
    /\ UNCHANGED <<ringVars, engineVars, protoVars, chunkVars, edgeVars,
                   serverVars, templVars>>

\* double current_lat = smoothed_latency_.load();
RaceLoadLat(t) ==
    /\ sthreads[t].pc = "load_lat"
    /\ sthreads' = [sthreads EXCEPT ![t].pc = "store_lat",
                                     ![t].current_lat = smoothed_latency_]
    /\ UNCHANGED <<schedVars, ringVars, engineVars, protoVars, chunkVars,
                   edgeVars,
                   serverVars, templVars>>

\* smoothed_latency_.store(alpha * latency + (1 - alpha) * current_lat);
RaceStoreLat(t) ==
    /\ sthreads[t].pc = "store_lat"
    /\ smoothed_latency_' =
          Ewma(sthreads[t].metrics.latency, sthreads[t].current_lat)
    /\ sthreads' = [sthreads EXCEPT ![t].pc = "done"]
    /\ UNCHANGED <<metrics_buffer_, smoothed_bandwidth_, nSamples>>
    /\ UNCHANGED <<ringVars, engineVars, protoVars, chunkVars, edgeVars,
                   serverVars, templVars>>

RaceNext ==
    \/ \E t \in SchedThreads, bw \in RaceBwSamples, lat \in RaceLatSamples :
          RaceCall(t, SchedSample(bw, lat))
    \/ \E t \in SchedThreads : RaceLoadBw(t)
    \/ \E t \in SchedThreads : RaceStoreBw(t)
    \/ \E t \in SchedThreads : RaceLoadLat(t)
    \/ \E t \in SchedThreads : RaceStoreLat(t)

InitRace ==
    /\ RingIdle /\ SchedInit /\ EngineIdle
    /\ ProtoIdle /\ ChunkIdle /\ EdgeIdle /\ ServerIdle /\ TemplIdle
    /\ sthreads = [t \in SchedThreads |-> IdleCaller]

SpecSchedRace == InitRace /\ [][RaceNext]_vars

\* The smoothed values that applying the updates of the threads in S one
\* after the other, in any order, can leave when starting from v.
RECURSIVE SequentialResults(_, _, _)
SequentialResults(S, sample, v) ==
    IF S = {} THEN {v}
    ELSE UNION {SequentialResults(S \ {t}, sample, Ewma(sample[t], v)) :
                    t \in S}

\* C13: when the threads' concurrent add_metrics_sample calls have all
\* returned, the smoothed bandwidth and the smoothed latency equal the
\* result of applying their updates one after the other in some order.
C13_NoLostSample ==
    (\A t \in SchedThreads : sthreads[t].pc = "done") =>
        /\ smoothed_bandwidth_ \in
              SequentialResults(SchedThreads,
                  [t \in SchedThreads |-> sthreads[t].metrics.bandwidth],
                  <<0, 1>>)
        /\ smoothed_latency_ \in
              SequentialResults(SchedThreads,
                  [t \in SchedThreads |-> sthreads[t].metrics.latency],
                  <<0, 1>>)

\* -------------------------------------------------------------- SpecChunks
\* ChunkQuadTree: insert_chunk calls building an acyclic dependency graph
\* (a chunk depends on chunks inserted before it), and
\* get_optimal_chunk_sequence.  nodes_[i] of the code is chunk_nodes_[i + 1].

ChunkIds == 1..MaxChunks

\* The root node the constructor pushes: {0, 0, 0, {}, false}.
RootNode ==
    [chunk_id |-> 0, timestamp |-> 0, size |-> 0, children |-> <<>>,
     is_leaf |-> FALSE]

\* The elements of a set of numbers as a vector, in ascending order.
RECURSIVE AscendingSeq(_)
AscendingSeq(S) ==
    IF S = {} THEN <<>>
    ELSE LET m == CHOOSE x \in S : \A y \in S : x <= y
         IN <<m>> \o AscendingSeq(S \ {m})

\* Chunk ids inserted so far.
InsertedIds == {chunk_nodes_[k].chunk_id : k \in 2..Len(chunk_nodes_)}

\* Declared dependencies of the chunk with the given id.
DependenciesOf(id) ==
    UNION {{chunk_nodes_[k].children[j] :
                j \in 1..Len(chunk_nodes_[k].children)} :
              k \in {i \in 2..Len(chunk_nodes_) :
                        chunk_nodes_[i].chunk_id = id}}

\* The state a traversal starts with: nothing visited, empty sequence; ub
\* records an access past the end of nodes_ / visited.
DfsStart == [visited |-> {}, sequence |-> <<>>, ub |-> FALSE]

\* The lambda dfs(node_id) and its loop over nodes_[node_id].children.
RECURSIVE dfs(_, _, _), dfs_children(_, _, _)
dfs(tree, node_id, st) ==
    IF st.ub THEN st
    ELSE IF node_id >= Len(tree) THEN [st EXCEPT !.ub = TRUE]
    ELSE IF node_id \in st.visited THEN st
    ELSE LET node == tree[node_id + 1]
             after == dfs_children(tree, node.children,
                          [st EXCEPT !.visited = @ \cup {node_id}])
         IN IF node.is_leaf /\ ~after.ub
            THEN [after EXCEPT !.sequence = Append(@, node.chunk_id)]
            ELSE after

dfs_children(tree, deps, st) ==
    IF deps = <<>> THEN st
    ELSE dfs_children(tree, Tail(deps), dfs(tree, Head(deps), st))

\* Every node's chunk id, the newest node first.
RECURSIVE newest_first(_)
newest_first(tree) ==
    IF Len(tree) <= 1 THEN <<>>
    ELSE <<tree[Len(tree)].chunk_id>>
             \o newest_first(SubSeq(tree, 1, Len(tree) - 1))

\* A traversal that emits every inserted chunk, the newest first.
chunk_sequence_newest_first(tree) ==
    [DfsStart EXCEPT !.sequence = newest_first(tree)]

\* get_optimal_chunk_sequence: dfs(root_id_) with root_id_ = 0.
get_optimal_chunk_sequence(tree) == dfs(tree, 0, DfsStart)

\* Sequences an out-of-bounds access could leave behind.
ArbitrarySequences == {<<>>, <<1>>, <<MaxChunks, 1>>}

\* insert_chunk(chunk_id, ts, size, dependencies)
InsertChunk(chunk_id, ts, size, dependencies) ==
    /\ Len(chunk_nodes_) <= MaxChunks
    /\ chunk_nodes_' = Append(chunk_nodes_,
          [chunk_id |-> chunk_id, timestamp |-> ts, size |-> size,
           children |-> dependencies, is_leaf |-> dependencies = <<>>])
    /\ sequenced' = FALSE
    /\ UNCHANGED chunk_sequence
    /\ UNCHANGED <<ringVars, schedVars, engineVars, protoVars, raceVars,
                   edgeVars,
                   serverVars, templVars>>

\* get_optimal_chunk_sequence(target_bitrate); the argument is not used.
GetChunkSequence ==
    /\ LET result == get_optimal_chunk_sequence(chunk_nodes_)
       IN IF result.ub
          THEN chunk_sequence' \in ArbitrarySequences
          ELSE chunk_sequence' = result.sequence
    /\ sequenced' = TRUE
    /\ UNCHANGED chunk_nodes_
    /\ UNCHANGED <<ringVars, schedVars, engineVars, protoVars, raceVars,
                   edgeVars,
                   serverVars, templVars>>

ChunksNext ==
    \/ \E id \in ChunkIds \ InsertedIds, deps \in SUBSET InsertedIds :
          InsertChunk(id, Len(chunk_nodes_), 1, AscendingSeq(deps))
    \/ GetChunkSequence

InitChunks ==
    /\ RingIdle /\ SchedIdle /\ EngineIdle
    /\ ProtoIdle /\ RaceIdle /\ EdgeIdle /\ ServerIdle /\ TemplIdle
    /\ chunk_nodes_ = <<RootNode>>
    /\ chunk_sequence = <<>>
    /\ sequenced = FALSE

SpecChunks == InitChunks /\ [][ChunksNext]_vars

C19_LeavesEmittedOnce ==
    sequenced =>
        \A k \in 2..Len(chunk_nodes_) :
            chunk_nodes_[k].children = <<>> =>
                Cardinality({i \in 1..Len(chunk_sequence) :
                    chunk_sequence[i] = chunk_nodes_[k].chunk_id}) = 1

\* ---------------------------------------------------------------- SpecEdge
\* QuantumEdgeManager: threads calling add_node, update_node_metrics and
\* select_optimal_node (through route_stream) on one registry.  Each call
\* takes nodes_mutex_ first; a thread that cannot take it has not started.

EdgeThreads == {1, 2}

\* Node ids; an id stands for a non-empty string.
EdgeIds == 1..NumEdgeNodes

\* The empty string select_optimal_node returns when no candidate exists.
NoNode == 0

EdgeCapacity == 10

EdgeLoads == {0, 9}

EdgeLatencies == {0, 20}

RequiredBandwidths == {0, 2}

IdleEdgeCaller ==
    [pc |-> "idle", node_id |-> NoNode, load |-> 0, latency |-> 0,
     required |-> 0, candidates |-> {}, result |-> NoNode]

\* std::unique_lock can be taken while readers hold the mutex.
lock_ok_ignoring_readers(m) == m.writer = 0

\* std::unique_lock lock(nodes_mutex_) can be taken.
lock_ok(m) == m.writer = 0 /\ m.readers = {}

\* std::shared_lock lock(nodes_mutex_) can be taken.
lock_shared_ok(m) == m.writer = 0

\* node.capacity - node.current_load
Spare(node) == node.capacity - node.current_load

\* Every node is a candidate.
qualifies_always(node, required_bandwidth) == TRUE

\* The test that makes a node a candidate.
qualifies(node, required_bandwidth) == Spare(node) > required_bandwidth

\* add_node(node): std::unique_lock lock(nodes_mutex_);
AddNodeLock(t, id, lat) ==
    /\ ethreads[t].pc = "idle"
    /\ lock_ok(nodes_mutex_)
    /\ nodes_mutex_' = [nodes_mutex_ EXCEPT !.writer = t]
    /\ ethreads' = [ethreads EXCEPT ![t].pc = "add",
                                     ![t].node_id = id,
                                     ![t].latency = lat]
    /\ UNCHANGED edge_nodes_
    /\ UNCHANGED <<ringVars, schedVars, engineVars, protoVars, raceVars,
                   chunkVars,
                   serverVars, templVars>>

\* nodes_.emplace(node.id, node), which keeps an entry that exists; return.
AddNodeApply(t) ==
    /\ ethreads[t].pc = "add"
    /\ edge_nodes_' =
          IF ethreads[t].node_id \in DOMAIN edge_nodes_ THEN edge_nodes_
          ELSE [id \in DOMAIN edge_nodes_ \cup {ethreads[t].node_id} |->
                   IF id \in DOMAIN edge_nodes_ THEN edge_nodes_[id]
                   ELSE [id |-> id, address |-> id,
                         latency |-> ethreads[t].latency,
                         capacity |-> EdgeCapacity, current_load |-> 0,
                         supported_codecs |-> <<>>]]
    /\ nodes_mutex_' = [nodes_mutex_ EXCEPT !.writer = 0]
    /\ ethreads' = [ethreads EXCEPT ![t] = IdleEdgeCaller]
    /\ UNCHANGED <<ringVars, schedVars, engineVars, protoVars, raceVars,
                   chunkVars,
                   serverVars, templVars>>

\* update_node_metrics(node_id, current_load, current_latency):
\* std::unique_lock lock(nodes_mutex_);
UpdateLock(t, id, load, lat) ==
    /\ ethreads[t].pc = "idle"
    /\ lock_ok(nodes_mutex_)
    /\ nodes_mutex_' = [nodes_mutex_ EXCEPT !.writer = t]
    /\ ethreads' = [ethreads EXCEPT ![t].pc = "update",
                                     ![t].node_id = id,
                                     ![t].load = load,
                                     ![t].latency = lat]
    /\ UNCHANGED edge_nodes_
    /\ UNCHANGED <<ringVars, schedVars, engineVars, protoVars, raceVars,
                   chunkVars,
                   serverVars, templVars>>

\* nodes_[node_id] assigned without the find: a missing node is created.
metrics_updated_inserting(registry, node_id, current_load, current_latency) ==
    [id \in DOMAIN registry \cup {node_id} |->
        IF id = node_id
        THEN [id |-> id, address |-> id, latency |-> current_latency,
              capacity |-> 0, current_load |-> current_load,
              supported_codecs |-> <<>>]
        ELSE registry[id]]

\* The registry after the body of update_node_metrics: the node found by
\* nodes_.find(node_id), if any, gets the new load and latency.
metrics_updated(registry, node_id, current_load, current_latency) ==
    IF node_id \in DOMAIN registry
    THEN [registry EXCEPT ![node_id].current_load = current_load,
                          ![node_id].latency = current_latency]
    ELSE registry

\* if (it != nodes_.end()) { current_load = ...; latency = ...; } return.
UpdateApply(t) ==
    /\ ethreads[t].pc = "update"
    /\ edge_nodes_' = metrics_updated(edge_nodes_, ethreads[t].node_id,
                                       ethreads[t].load, ethreads[t].latency)
    /\ nodes_mutex_' = [nodes_mutex_ EXCEPT !.writer = 0]
    /\ ethreads' = [ethreads EXCEPT ![t] = IdleEdgeCaller]
    /\ UNCHANGED <<ringVars, schedVars, engineVars, protoVars, raceVars,
                   chunkVars,
                   serverVars, templVars>>

\* select_optimal_node(region, required_bandwidth):
\* std::shared_lock lock(nodes_mutex_);
SelectLock(t, required_bandwidth) ==
    /\ ethreads[t].pc = "idle"
    /\ lock_shared_ok(nodes_mutex_)
    /\ nodes_mutex_' = [nodes_mutex_ EXCEPT !.readers = @ \cup {t}]
    /\ ethreads' = [ethreads EXCEPT ![t].pc = "scan",
                                     ![t].required = required_bandwidth]
    /\ UNCHANGED edge_nodes_
    /\ UNCHANGED <<ringVars, schedVars, engineVars, protoVars, raceVars,
                   chunkVars,
                   serverVars, templVars>>

\* The loop over nodes_ that collects the candidates.
SelectScan(t) ==
    /\ ethreads[t].pc = "scan"
    /\ ethreads' = [ethreads EXCEPT
          ![t].pc = "pick",
          ![t].candidates =
              {id \in DOMAIN edge_nodes_ :
                  qualifies(edge_nodes_[id], ethreads[t].required)}]
    /\ UNCHANGED <<edge_nodes_, nodes_mutex_>>
    /\ UNCHANGED <<ringVars, schedVars, engineVars, protoVars, raceVars,
                   chunkVars,
                   serverVars, templVars>>

\* return "" without candidates; otherwise the weighted random choice.  A
\* candidate's score is positive (its spare capacity exceeds a non-negative
\* requirement and latency + 1 is positive), so every candidate can be
\* drawn, and any of them can be candidates.back().
SelectPick(t) ==
    /\ ethreads[t].pc = "pick"
    /\ IF ethreads[t].candidates = {}
       THEN ethreads' = [ethreads EXCEPT ![t].pc = "picked",
                                         ![t].result = NoNode]
       ELSE \E id \in ethreads[t].candidates :
                ethreads' = [ethreads EXCEPT ![t].pc = "picked",
                                             ![t].result = id]
    /\ UNCHANGED <<edge_nodes_, nodes_mutex_>>
    /\ UNCHANGED <<ringVars, schedVars, engineVars, protoVars, raceVars,
                   chunkVars,
                   serverVars, templVars>>

\* The return: the shared lock is released.
SelectReturn(t) ==
    /\ ethreads[t].pc = "picked"
    /\ nodes_mutex_' = [nodes_mutex_ EXCEPT !.readers = @ \ {t}]
    /\ ethreads' = [ethreads EXCEPT ![t] = IdleEdgeCaller]
    /\ UNCHANGED edge_nodes_
    /\ UNCHANGED <<ringVars, schedVars, engineVars, protoVars, raceVars,
                   chunkVars,
                   serverVars, templVars>>

EdgeNext ==
    \/ \E t \in EdgeThreads, id \in EdgeIds, lat \in EdgeLatencies :
          AddNodeLock(t, id, lat)
    \/ \E t \in EdgeThreads : AddNodeApply(t)
    \/ \E t \in EdgeThreads, id \in EdgeIds, load \in EdgeLoads,
            lat \in EdgeLatencies :
          UpdateLock(t, id, load, lat)
    \/ \E t \in EdgeThreads : UpdateApply(t)
    \/ \E t \in EdgeThreads, required \in RequiredBandwidths :
          SelectLock(t, required)
    \/ \E t \in EdgeThreads : SelectScan(t)
    \/ \E t \in EdgeThreads : SelectPick(t)
    \/ \E t \in EdgeThreads : SelectReturn(t)

InitEdge ==
    /\ RingIdle /\ SchedIdle /\ EngineIdle
    /\ ProtoIdle /\ RaceIdle /\ ChunkIdle /\ ServerIdle /\ TemplIdle
    /\ edge_nodes_ = <<>>
    /\ nodes_mutex_ = [readers |-> {}, writer |-> 0]
    /\ ethreads = [t \in EdgeThreads |-> IdleEdgeCaller]

SpecEdge == InitEdge /\ [][EdgeNext]_vars

\* ============================================================= edge claims
\* C20: while select_optimal_node holds its choice, whatever update calls
\* run beside it, the node it is about to return does not have a spare
\* capacity (capacity - current_load) below the requested bandwidth.
C20_SelectedNodeHasSpareCapacity ==
    \A t \in DOMAIN ethreads :
        (ethreads[t].pc = "picked" /\ ethreads[t].result # NoNode) =>
            ~(Spare(edge_nodes_[ethreads[t].result]) < ethreads[t].required)

\* A selection picked a node while another registered node lacks the spare
\* capacity and the other thread waits to update.
C20_Witness ==
    \E t \in DOMAIN ethreads :
        /\ ethreads[t].pc = "picked"
        /\ ethreads[t].result # NoNode
        /\ \E id \in DOMAIN edge_nodes_ :
              Spare(edge_nodes_[id]) < ethreads[t].required
        /\ \E u \in DOMAIN ethreads : u # t /\ ethreads[u].pc = "idle"

\* C21: select_optimal_node returns the empty string exactly when no
\* registered node has spare capacity exceeding the requirement, and
\* otherwise the id of a registered node whose spare capacity exceeds it.
C21_EmptyExactlyWhenNoneQualifies ==
    \A t \in DOMAIN ethreads :
        ethreads[t].pc = "picked" =>
            LET fit == {id \in DOMAIN edge_nodes_ :
                           Spare(edge_nodes_[id]) > ethreads[t].required}
            IN /\ ethreads[t].result = NoNode <=> fit = {}
               /\ ethreads[t].result # NoNode => ethreads[t].result \in fit

\* One selection is about to return the empty string from a registry that
\* holds nodes, another one the id of a node.
C21_Witness ==
    \E t \in DOMAIN ethreads, u \in DOMAIN ethreads :
        /\ ethreads[t].pc = "picked"
        /\ ethreads[t].result = NoNode
        /\ edge_nodes_ # <<>>
        /\ ethreads[u].pc = "picked"
        /\ ethreads[u].result # NoNode

\* C29: update_node_metrics(node_id, load, latency) changes only the
\* current_load and latency of the node with that id; every other node and
\* field is unchanged, and an id that is not registered changes nothing and
\* adds no node.
C29_UpdateTouchesOnlyLoadAndLatency ==
    [][\A t \in DOMAIN ethreads :
          (ethreads[t].pc = "update" /\ ethreads'[t].pc = "idle") =>
              /\ DOMAIN edge_nodes_' = DOMAIN edge_nodes_
              /\ \A id \in DOMAIN edge_nodes_ :
                    IF id = ethreads[t].node_id
                    THEN edge_nodes_'[id] =
                             [edge_nodes_[id] EXCEPT
                                 !.current_load = ethreads[t].load,
                                 !.latency = ethreads[t].latency]
                    ELSE edge_nodes_'[id] = edge_nodes_[id]]_vars

\* An update has changed one node's load and latency beside an untouched
\* node, and an update naming an unregistered id is about to apply.
C29_Witness ==
    /\ \E id \in DOMAIN edge_nodes_ :
          /\ edge_nodes_[id].current_load = 9
          /\ edge_nodes_[id].capacity = EdgeCapacity
    /\ \E t \in DOMAIN ethreads :
          /\ ethreads[t].pc = "update"
          /\ ethreads[t].node_id \notin DOMAIN edge_nodes_

\* C28: in every reachable state of a ring buffer of capacity C, the head
\* index and the tail index are both at least 0 and below C.
C28_IndicesWithinCapacity ==
    /\ ring.head_ >= 0 /\ ring.head_ < ring.capacity_
    /\ ring.tail_ >= 0 /\ ring.tail_ < ring.capacity_

\* Both indices have wrapped or are about to: the head stands on the last
\* slot of the largest buffer and the tail is back at the first.
C28_Witness ==
    /\ ring.capacity_ = MaxCap
    /\ ring.head_ = ring.capacity_ - 1
    /\ ring.tail_ = 0
    /\ Len(popped) >= 1

\* C30: in every reachable state size() equals the number of successful
\* pushes minus the number of successful pops, so it is zero exactly when the
\* buffer holds nothing.
C30_SizeCountsHeldItems ==
    /\ RB_size(ring) = Len(pushed) - Len(popped)
    /\ RB_size(ring) = 0 <=> Held = 0

\* The buffer holds two items across the wrap-around (tail behind head).
C30_Witness ==
    /\ Held >= 2
    /\ ring.tail_ < ring.head_
    /\ RB_size(ring) = Held

\* C27 as stated: once the destructor has set the running flag to false no
\* worker pops a further task.
C27_NoPopAfterFlag ==
    [][\A w \in DOMAIN worker :
          ~running_ => ~(worker[w].pc = "pop" /\ worker'[w].pc = "run")]_vars

\* C27 amended: shutdown terminates.  A worker that evaluates its loop
\* condition after the flag was set to false leaves the loop (so it pops at
\* most the one task whose loop test preceded the store, and runs it); the
\* joins return only once every worker has left holding no task; and a
\* destructor that has set the flag eventually returns.
C27_ShutdownTerminates ==
    /\ [][\A w \in DOMAIN worker :
             (~running_ /\ worker[w].pc = "check"
                 /\ worker'[w].pc # worker[w].pc)
                 => worker'[w].pc = "exited"]_vars
    /\ [](dtor.pc = "done" =>
             \A w \in DOMAIN worker :
                 worker[w].pc = "exited" /\ worker[w].task = Null)
    /\ (dtor.pc = "joining" ~> dtor.pc = "done")

\* The flag is false, one worker has left its loop and another still holds
\* the task it popped.
C27_Witness ==
    /\ ~running_
    /\ dtor.pc = "joining"
    /\ \E w \in DOMAIN worker : worker[w].pc = "run"
    /\ \E w \in DOMAIN worker : worker[w].pc = "exited"

\* -------------------------------------------------------------- SpecServer
\* QuantumStreamServer: the thread inside start_server, the kernel's view of
\* the client sockets, and the clients.  One handler invocation is one step
\* (the event loop is the only thread that touches the connection table, the
\* epoll instance and the descriptors).  Descriptors are numbered from 1 and
\* accept returns the lowest free one.

\* The descriptors accept4 can return: at most two clients are connected at
\* a time.
ClientFds == {1, 2}

\* data.fd of the listening socket's events.
ServerFd == 0

\* Bytes a client writes in one burst.
SendSizes == {100, 5000}

\* What accept_connections can run into.
StartupOutcomes == {"ok", "epoll", "socket", "bind", "listen"}

\* The state the handlers work on.
HandlerState(table, socks) ==
    [connections_ |-> table, sockets |-> socks, submitted |-> 0,
     cleanups |-> 0]

\* A descriptor the kernel has just returned from accept4.
NewSocket ==
    [unread |-> 0, sends |-> 0, eof |-> FALSE, err |-> FALSE, ready |-> {}]

\* f without the key k.
Without(f, k) == [x \in DOMAIN f \ {k} |-> f[x]]

\* f with the key k bound to v (an existing binding is kept: emplace).
Emplaced(f, k, v) ==
    [x \in DOMAIN f \cup {k} |-> IF x \in DOMAIN f THEN f[x] ELSE v]

\* ConnectionPool::update_activity(fd)
update_activity(st, fd, now) ==
    IF fd \in DOMAIN st.connections_
    THEN [st EXCEPT !.connections_[fd].last_activity = now]
    ELSE st

\* Mutant: the table entry is left behind.
cleanup_connection_keeping_entry(st, fd) ==
    [st EXCEPT !.sockets = Without(st.sockets, fd),
               !.cleanups = @ + 1]

\* Mutant: the teardown empties the whole table.
cleanup_connection_clearing_table(st, fd) ==
    [st EXCEPT !.connections_ = <<>>,
               !.sockets = Without(st.sockets, fd),
               !.cleanups = @ + 1]

\* cleanup_connection(fd): EPOLL_CTL_DEL, remove_connection, close.  Closing
\* the descriptor also drops its epoll registration; on a descriptor that is
\* already closed the three calls fail or find nothing.
cleanup_connection(st, fd) ==
    [st EXCEPT !.connections_ = Without(st.connections_, fd),
               !.sockets = Without(st.sockets, fd),
               !.cleanups = @ + 1]

\* What read(fd, buffer, sizeof(buffer)) returns: the byte count, 0 at end
\* of stream, -1 for EAGAIN / EWOULDBLOCK, -2 for any other error.
read_result(st, fd) ==
    IF fd \notin DOMAIN st.sockets THEN 0 - 2
    ELSE IF st.sockets[fd].err THEN 0 - 2
    ELSE IF st.sockets[fd].unread > 0
         THEN IF st.sockets[fd].unread < ReadBufferSize
              THEN st.sockets[fd].unread ELSE ReadBufferSize
    ELSE IF st.sockets[fd].eof THEN 0
    ELSE 0 - 1

\* handle_read_event(fd): one read; the bytes go to process_received_data,
\* which submits them to io_core_.
handle_read_event(st, fd) ==
    LET bytes_read == read_result(st, fd)
    IN IF bytes_read > 0
       THEN [st EXCEPT !.sockets[fd].unread = @ - bytes_read,
                       !.submitted = @ + bytes_read]
       ELSE IF bytes_read = 0 THEN cleanup_connection(st, fd)
       ELSE IF bytes_read = 0 - 2 THEN cleanup_connection(st, fd)
       ELSE st

\* handle_connection_activity(fd, events); handle_write_event does nothing.
handle_connection_activity(st, fd, events, now) ==
    LET touched == update_activity(st, fd, now)
        after_in == IF "EPOLLIN" \in events
                    THEN handle_read_event(touched, fd) ELSE touched
    IN IF events \cap {"EPOLLERR", "EPOLLHUP"} # {}
       THEN cleanup_connection(after_in, fd)
       ELSE after_in

\* The lowest descriptor that is not open.
LowestFreeFd(socks) ==
    CHOOSE fd \in ClientFds :
        fd \notin DOMAIN socks /\ \A g \in ClientFds : g < fd => g \in DOMAIN socks

\* ConnectionPool::add_connection(fd, client_id)
add_connection(st, fd, now) ==
    [st EXCEPT !.connections_ =
        Emplaced(@, fd, [fd |-> fd, active |-> TRUE, last_activity |-> now])]

\* handle_new_connection() after accept4 has returned client_fd; the socket
\* is registered with EPOLLIN | EPOLLET.
handle_new_connection(st, client_fd, now) ==
    [add_connection(st, client_fd, now) EXCEPT
        !.sockets = Emplaced(@, client_fd, NewSocket)]

\* What epoll_wait reports: the listening socket while its queue is not empty
\* (level-triggered), a client socket once per readiness change
\* (edge-triggered).
ReadyEvents ==
    {[fd |-> ServerFd, events |-> {"EPOLLIN"}] :
        x \in {y \in {ServerFd} : srv.listening /\ listenq > 0}}
    \cup {[fd |-> fd, events |-> sockets[fd].ready] :
        fd \in {g \in DOMAIN sockets : sockets[g].ready # {}}}

\* accept_connections(): every failure only returns to start_server.
AcceptConnections(outcome) ==
    /\ srv.pc = "accept"
    /\ srv' = [srv EXCEPT !.pc = "io",
                          !.startup = outcome,
                          !.epoll_ok = (outcome # "epoll"),
                          !.listening = (outcome = "ok")]
    /\ UNCHANGED <<connections_, sockets, listenq, batch, handled>>
    /\ UNCHANGED <<ringVars, schedVars, engineVars, protoVars, raceVars,
                   chunkVars, edgeVars, templVars>>

\* process_io_events(): while (running_.load(acquire))
IoLoopTest ==
    /\ srv.pc = "io"
    /\ srv' = [srv EXCEPT !.pc = IF srv.running_ THEN "wait" ELSE "maint"]
    /\ UNCHANGED <<connections_, sockets, listenq, batch, handled>>
    /\ UNCHANGED <<ringVars, schedVars, engineVars, protoVars, raceVars,
                   chunkVars, edgeVars, templVars>>

\* epoll_wait(epoll_fd_, events, MAX_EVENTS, 1000): -1 on a bad descriptor, 0
\* on timeout, otherwise the batch of ready events.
EpollWait ==
    /\ srv.pc = "wait"
    /\ IF srv.epoll_ok /\ ReadyEvents # {}
       THEN /\ batch' = ReadyEvents
            /\ sockets' = [fd \in DOMAIN sockets |->
                              [sockets[fd] EXCEPT !.ready = {}]]
            /\ srv' = [srv EXCEPT !.pc = "dispatch"]
       ELSE /\ srv' = [srv EXCEPT !.pc = "io"]
            /\ UNCHANGED <<batch, sockets>>
    /\ UNCHANGED <<connections_, listenq, handled>>
    /\ UNCHANGED <<ringVars, schedVars, engineVars, protoVars, raceVars,
                   chunkVars, edgeVars, templVars>>

\* One iteration of the for loop over the batch: handle_new_connection() for
\* the listening socket (accept4 may fail), handle_connection_activity for a
\* client socket.
Dispatch(e, accept_ok) ==
    /\ srv.pc = "dispatch"
    /\ e \in batch
    /\ LET st == HandlerState(connections_, sockets)
           accepted == e.fd = ServerFd /\ accept_ok
           res == IF e.fd = ServerFd
                  THEN IF accept_ok
                       THEN handle_new_connection(st, LowestFreeFd(sockets),
                                                  srv.now)
                       ELSE st
                  ELSE handle_connection_activity(st, e.fd, e.events,
                                                  srv.now)
       IN /\ connections_' = res.connections_
          /\ sockets' = res.sockets
          /\ listenq' = IF accepted THEN listenq - 1 ELSE listenq
          /\ batch' = batch \ {e}
          /\ handled' = [fd |-> e.fd, events |-> e.events,
                         cleanups |-> res.cleanups]
          /\ srv' = [srv EXCEPT
                        !.pc = IF batch \ {e} = {} THEN "io" ELSE "dispatch",
                        !.submitted = @ + res.submitted]
    /\ UNCHANGED <<ringVars, schedVars, engineVars, protoVars, raceVars,
                   chunkVars, edgeVars, templVars>>

\* handle_maintenance_tasks(): last_cleanup is a function-local static, set
\* on the first call; cleanup_inactive_connections and update_edge_metrics
\* only print.
Maintenance ==
    /\ srv.pc = "maint"
    /\ LET last_cleanup == IF srv.last_cleanup < 0 THEN srv.now
                           ELSE srv.last_cleanup
       IN srv' = [srv EXCEPT
                     !.pc = "accept",
                     !.sweeps = IF srv.now - last_cleanup
                                     >= MaintenanceInterval
                                THEN 1 ELSE @,
                     !.last_cleanup = IF srv.now - last_cleanup
                                           >= MaintenanceInterval
                                      THEN srv.now ELSE last_cleanup]
    /\ UNCHANGED <<connections_, sockets, listenq, batch, handled>>
    /\ UNCHANGED <<ringVars, schedVars, engineVars, protoVars, raceVars,
                   chunkVars, edgeVars, templVars>>

\* A client completes the handshake with the listening socket.
ClientConnect ==
    /\ srv.listening
    /\ srv.arrivals < MaxArrivals
    /\ listenq + Cardinality(DOMAIN sockets) < Cardinality(ClientFds)
    /\ listenq' = listenq + 1
    /\ srv' = [srv EXCEPT !.arrivals = @ + 1]
    /\ UNCHANGED <<connections_, sockets, batch, handled>>
    /\ UNCHANGED <<ringVars, schedVars, engineVars, protoVars, raceVars,
                   chunkVars, edgeVars, templVars>>

\* A client writes n bytes: the socket becomes readable.
ClientSend(fd, n) ==
    /\ fd \in DOMAIN sockets
    /\ ~sockets[fd].eof /\ ~sockets[fd].err
    /\ sockets[fd].sends < MaxSends
    /\ sockets' = [sockets EXCEPT ![fd].unread = @ + n,
                                  ![fd].sends = @ + 1,
                                  ![fd].ready = @ \cup {"EPOLLIN"}]
    /\ UNCHANGED <<srv, connections_, listenq, batch, handled>>
    /\ UNCHANGED <<ringVars, schedVars, engineVars, protoVars, raceVars,
                   chunkVars, edgeVars, templVars>>

\* A client shuts its side down: end of stream after the unread bytes.
ClientClose(fd) ==
    /\ fd \in DOMAIN sockets
    /\ ~sockets[fd].eof /\ ~sockets[fd].err
    /\ sockets' = [sockets EXCEPT ![fd].eof = TRUE,
                                  ![fd].ready = @ \cup {"EPOLLIN"}]
    /\ UNCHANGED <<srv, connections_, listenq, batch, handled>>
    /\ UNCHANGED <<ringVars, schedVars, engineVars, protoVars, raceVars,
                   chunkVars, edgeVars, templVars>>

\* A client resets the connection: the unread bytes are discarded and the
\* socket reports an error and a hangup.
ClientReset(fd) ==
    /\ fd \in DOMAIN sockets
    /\ ~sockets[fd].err
    /\ sockets' = [sockets EXCEPT
                      ![fd].err = TRUE,
                      ![fd].unread = 0,
                      ![fd].ready = @ \cup {"EPOLLIN", "EPOLLERR",
                                            "EPOLLHUP"}]
    /\ UNCHANGED <<srv, connections_, listenq, batch, handled>>
    /\ UNCHANGED <<ringVars, schedVars, engineVars, protoVars, raceVars,
                   chunkVars, edgeVars, templVars>>

\* A minute passes.
Tick ==
    /\ srv.now < MaxNow
    /\ srv' = [srv EXCEPT !.now = @ + 1]
    /\ UNCHANGED <<connections_, sockets, listenq, batch, handled>>
    /\ UNCHANGED <<ringVars, schedVars, engineVars, protoVars, raceVars,
                   chunkVars, edgeVars, templVars>>

\* One step of the thread inside start_server.
ServerStep ==
    \/ \E outcome \in StartupOutcomes : AcceptConnections(outcome)
    \/ IoLoopTest
    \/ EpollWait
    \/ \E e \in batch, accept_ok \in BOOLEAN : Dispatch(e, accept_ok)
    \/ Maintenance

ServerNext ==
    \/ \E outcome \in StartupOutcomes : AcceptConnections(outcome)
    \/ IoLoopTest
    \/ EpollWait
    \/ \E e \in batch, accept_ok \in BOOLEAN : Dispatch(e, accept_ok)
    \/ Maintenance
    \/ ClientConnect
    \/ \E fd \in ClientFds, n \in SendSizes : ClientSend(fd, n)
    \/ \E fd \in ClientFds : ClientClose(fd)
    \/ \E fd \in ClientFds : ClientReset(fd)

\* The server and its clients while the clock runs.
ServerTimedNext ==
    \/ ServerNext
    \/ Tick

\* running_ is read by process_io_events but declared and written nowhere:
\* either value, never changed.
InitServer ==
    /\ \E r \in BOOLEAN :
          srv = [pc |-> "accept", running_ |-> r, startup |-> "none",
                 epoll_ok |-> FALSE, listening |-> FALSE, now |-> 0,
                 last_cleanup |-> 0 - 1, sweeps |-> 0, submitted |-> 0,
                 arrivals |-> 0]
    /\ connections_ = <<>>
    /\ sockets = <<>>
    /\ listenq = 0
    /\ batch = {}
    /\ handled = [fd |-> ServerFd, events |-> {}, cleanups |-> 0]
    /\ RingIdle /\ SchedIdle /\ EngineIdle
    /\ ProtoIdle /\ RaceIdle /\ ChunkIdle /\ EdgeIdle /\ TemplIdle

\* The thread inside start_server keeps running, and so does the clock.
ServerFairness == WF_vars(ServerStep) /\ WF_vars(Tick)

SpecServer == InitServer /\ [][ServerNext]_vars

SpecServerTimed == InitServer /\ [][ServerTimedNext]_vars /\ ServerFairness

\* ----------------------------------------------------------- server claims

\* C22: after a startup failure (epoll creation, socket creation, bind or
\* listen) start_server never enters the readiness wait or the event
\* processing.
C22_NoServingAfterStartupFailure ==
    srv.startup \in {"epoll", "socket", "bind", "listen"}
        => srv.pc \notin {"wait", "dispatch"}

\* C23: while the server is serving, a connection whose last_activity is
\* older than the inactivity threshold is eventually removed from the
\* connection table.
C23_IdleConnectionSwept ==
    \A fd \in ClientFds :
        (/\ fd \in DOMAIN connections_
         /\ srv.now - connections_[fd].last_activity > IdleThreshold)
            ~> (fd \notin DOMAIN connections_)

\* C24: no bytes received on an open connection stay unread while no
\* readable notification for the connection is pending or being served.
C24_NoUnreadWithoutNotification ==
    \A fd \in DOMAIN sockets :
        sockets[fd].unread > 0
            => \/ "EPOLLIN" \in sockets[fd].ready
               \/ \E e \in batch : e.fd = fd /\ "EPOLLIN" \in e.events

\* C25: between handler invocations the connection table holds exactly the
\* handles accepted and not yet torn down, one entry per handle, keyed by the
\* handle.
C25_TableHoldsOpenHandles ==
    /\ DOMAIN connections_ = DOMAIN sockets
    /\ \A fd \in DOMAIN connections_ : connections_[fd].fd = fd

\* A handle has been torn down while another connection is open.
C25_Witness ==
    /\ handled.cleanups > 0
    /\ handled.fd \notin DOMAIN sockets
    /\ DOMAIN connections_ # {}

\* C26: a handler that tears its connection down leaves every other
\* connection's table entry, registration and open handle as they were, and
\* the loop goes on with the remaining events of the batch.
C26_TeardownIsolated ==
    [][(srv.pc = "dispatch" /\ batch' # batch /\ handled'.cleanups > 0)
        => /\ \A g \in DOMAIN sockets \ {handled'.fd} :
                 /\ g \in DOMAIN sockets' /\ sockets'[g] = sockets[g]
                 /\ g \in DOMAIN connections_'
                 /\ connections_'[g] = connections_[g]
           /\ batch' = batch \ {[fd |-> handled'.fd,
                                 events |-> handled'.events]}
           /\ srv'.pc = IF batch' = {} THEN "io" ELSE "dispatch"
           /\ srv'.running_ = srv.running_]_vars

\* A connection has been torn down while another one is open and has an
\* event waiting in the same batch.
C26_Witness ==
    /\ handled.cleanups > 0
    /\ srv.pc = "dispatch"
    /\ \E e \in batch : e.fd \in DOMAIN connections_ \ {handled.fd}

\* C32: one handler invocation runs cleanup_connection at most once for its
\* descriptor, whatever event flags were delivered and whatever read
\* returned.
C32_CleanupAtMostOnce ==
    handled.cleanups <= 1

\* ------------------------------------------------------ MPSC queue claims

\* The nodes that belong to a queue, given some of them: those linked behind
\* them and those exchanged into tail_ behind them by a push that has not
\* stored its link yet.
RECURSIVE QueueNodes(_)
QueueNodes(S) ==
    LET linked == {nodes[n].next : n \in {m \in S : nodes[m].next # Null}}
        exchanged == {prod[p].new_node :
                         p \in {r \in DOMAIN prod :
                                   /\ prod[r].pc = "link"
                                   /\ prod[r].old_tail \in S}}
        T == S \cup linked \cup exchanged
    IN IF T = S THEN S ELSE QueueNodes(T)

\* The tasks of queue q whose push has returned and which no pop has taken.
CompletedPushes(q) ==
    {n \in QueueNodes({qhead[q]}) \ {qhead[q]} :
        \A p \in DOMAIN prod :
            ~(prod[p].pc = "link" /\ prod[p].new_node = n)}

\* C31: a pop by the owning consumer returns a task whenever a completed push
\* to its queue is outstanding, whatever other producers are part-way
\* through push.
C31_PopFindsCompletedPush ==
    \A w \in Queues :
        (worker[w].pc = "pop" /\ CompletedPushes(w) # {})
            => Q_pop(w).task # Null

\* ------------------------------------------------------------ SpecTemplate
\* core/templating/template_core.cpp, QuantumTemplateEngine: the worker
\* threads inside worker_loop, a thread calling submit_task and the thread
\* destroying the engine.  A step is one access to running_, one mutex
\* operation with the accesses to task_queue_ it protects, or one operation
\* on the condition variable.

TplWorkers == 1..NumTplWorkers

\* queue_mutex_ when no thread holds it.
Unlocked == 0

\* worker_loop: while (running_.load(acquire))
TplLoopTest(w) ==
    /\ worker_threads_[w].pc = "loop"
    /\ worker_threads_' = [worker_threads_ EXCEPT ![w].pc =
                              IF tpl_running_ THEN "lock" ELSE "exited"]
    /\ UNCHANGED <<tpl_running_, task_queue_, queue_mutex_, queue_cv_,
                   submitter, tpl_dtor>>
    /\ UNCHANGED <<ringVars, schedVars, engineVars, protoVars, raceVars,
                   chunkVars, edgeVars, serverVars>>

\* worker_loop: std::unique_lock lock(queue_mutex_), and the re-acquisition
\* inside wait once the worker has been woken.
TplLock(w) ==
    /\ \/ worker_threads_[w].pc = "lock"
       \/ worker_threads_[w].pc = "blocked" /\ w \notin queue_cv_
    /\ queue_mutex_ = Unlocked
    /\ queue_mutex_' = w
    /\ worker_threads_' = [worker_threads_ EXCEPT ![w].pc = "predicate"]
    /\ UNCHANGED <<tpl_running_, task_queue_, queue_cv_, submitter, tpl_dtor>>
    /\ UNCHANGED <<ringVars, schedVars, engineVars, protoVars, raceVars,
                   chunkVars, edgeVars, serverVars>>

\* The predicate handed to queue_cv_.wait.
wait_predicate(queue, running) == queue # <<>> \/ ~running

\* queue_cv_.wait(lock, pred): while (!pred()) wait(lock); this step is the
\* evaluation of pred() with the mutex held.
TplPredicate(w) ==
    /\ worker_threads_[w].pc = "predicate"
    /\ worker_threads_' = [worker_threads_ EXCEPT ![w].pc =
                              IF wait_predicate(task_queue_, tpl_running_)
                              THEN "woken" ELSE "wait"]
    /\ UNCHANGED <<tpl_running_, task_queue_, queue_mutex_, queue_cv_,
                   submitter, tpl_dtor>>
    /\ UNCHANGED <<ringVars, schedVars, engineVars, protoVars, raceVars,
                   chunkVars, edgeVars, serverVars>>

\* wait(lock): the mutex is released and the thread blocks on the condition
\* variable, atomically.
TplWait(w) ==
    /\ worker_threads_[w].pc = "wait"
    /\ queue_mutex_' = Unlocked
    /\ queue_cv_' = queue_cv_ \cup {w}
    /\ worker_threads_' = [worker_threads_ EXCEPT ![w].pc = "blocked"]
    /\ UNCHANGED <<tpl_running_, task_queue_, submitter, tpl_dtor>>
    /\ UNCHANGED <<ringVars, schedVars, engineVars, protoVars, raceVars,
                   chunkVars, edgeVars, serverVars>>

\* worker_loop after wait has returned: break when running_ is false,
\* continue when the queue is empty, otherwise take the front task; the lock
\* goes out of scope on each of the three paths.
TplTake(w) ==
    /\ worker_threads_[w].pc = "woken"
    /\ queue_mutex_' = Unlocked
    /\ IF ~tpl_running_
       THEN /\ worker_threads_' = [worker_threads_ EXCEPT ![w].pc = "exited"]
            /\ UNCHANGED task_queue_
       ELSE IF task_queue_ = <<>>
       THEN /\ worker_threads_' = [worker_threads_ EXCEPT ![w].pc = "loop"]
            /\ UNCHANGED task_queue_
       ELSE /\ worker_threads_' = [worker_threads_ EXCEPT ![w] =
                                    [pc |-> "run", task |-> Head(task_queue_)]]
            /\ task_queue_' = Tail(task_queue_)
    /\ UNCHANGED <<tpl_running_, queue_cv_, submitter, tpl_dtor>>
    /\ UNCHANGED <<ringVars, schedVars, engineVars, protoVars, raceVars,
                   chunkVars, edgeVars, serverVars>>

\* worker_loop: task()
TplRun(w) ==
    /\ worker_threads_[w].pc = "run"
    /\ worker_threads_' = [worker_threads_ EXCEPT ![w] =
                              [pc |-> "loop", task |-> Null]]
    /\ UNCHANGED <<tpl_running_, task_queue_, queue_mutex_, queue_cv_,
                   submitter, tpl_dtor>>
    /\ UNCHANGED <<ringVars, schedVars, engineVars, protoVars, raceVars,
                   chunkVars, edgeVars, serverVars>>

\* A blocked worker may wake without a notification.
TplSpuriousWake(w) ==
    /\ w \in queue_cv_
    /\ queue_cv_' = queue_cv_ \ {w}
    /\ UNCHANGED <<tpl_running_, task_queue_, queue_mutex_, worker_threads_,
                   submitter, tpl_dtor>>
    /\ UNCHANGED <<ringVars, schedVars, engineVars, protoVars, raceVars,
                   chunkVars, edgeVars, serverVars>>

\* submit_task: the block that locks queue_mutex_, pushes and unlocks.
TplSubmitPush ==
    /\ submitter.pc = "idle"
    /\ submitter.submitted < MaxTplTasks
    /\ tpl_dtor.pc = "alive"
    /\ queue_mutex_ = Unlocked
    /\ task_queue_' = Append(task_queue_, submitter.submitted + 1)
    /\ submitter' = [pc |-> "notify", submitted |-> submitter.submitted + 1]
    /\ UNCHANGED <<tpl_running_, queue_mutex_, queue_cv_, worker_threads_,
                   tpl_dtor>>
    /\ UNCHANGED <<ringVars, schedVars, engineVars, protoVars, raceVars,
                   chunkVars, edgeVars, serverVars>>

\* submit_task: queue_cv_.notify_one()
TplSubmitNotify ==
    /\ submitter.pc = "notify"
    /\ IF queue_cv_ = {} THEN UNCHANGED queue_cv_
       ELSE \E w \in queue_cv_ : queue_cv_' = queue_cv_ \ {w}
    /\ submitter' = [submitter EXCEPT !.pc = "idle"]
    /\ UNCHANGED <<tpl_running_, task_queue_, queue_mutex_, worker_threads_,
                   tpl_dtor>>
    /\ UNCHANGED <<ringVars, schedVars, engineVars, protoVars, raceVars,
                   chunkVars, edgeVars, serverVars>>

\* ~QuantumTemplateEngine: running_.store(false), queue_mutex_ not held.
TplDtorStore ==
    /\ tpl_dtor.pc = "alive"
    /\ submitter.pc = "idle"
    /\ tpl_running_' = FALSE
    /\ tpl_dtor' = [tpl_dtor EXCEPT !.pc = "notify"]
    /\ UNCHANGED <<task_queue_, queue_mutex_, queue_cv_, worker_threads_,
                   submitter>>
    /\ UNCHANGED <<ringVars, schedVars, engineVars, protoVars, raceVars,
                   chunkVars, edgeVars, serverVars>>

\* ~QuantumTemplateEngine: queue_cv_.notify_all()
TplDtorNotify ==
    /\ tpl_dtor.pc = "notify"
    /\ queue_cv_' = {}
    /\ tpl_dtor' = [tpl_dtor EXCEPT !.pc = "joining"]
    /\ UNCHANGED <<tpl_running_, task_queue_, queue_mutex_, worker_threads_,
                   submitter>>
    /\ UNCHANGED <<ringVars, schedVars, engineVars, protoVars, raceVars,
                   chunkVars, edgeVars, serverVars>>

\* ~QuantumTemplateEngine: thread.join() returns once the worker has left
\* worker_loop; after the last join the destructor returns.
TplDtorJoin ==
    /\ tpl_dtor.pc = "joining"
    /\ worker_threads_[tpl_dtor.i].pc = "exited"
    /\ tpl_dtor' = IF tpl_dtor.i = NumTplWorkers
                   THEN [pc |-> "done", i |-> tpl_dtor.i]
                   ELSE [pc |-> "joining", i |-> tpl_dtor.i + 1]
    /\ UNCHANGED <<tpl_running_, task_queue_, queue_mutex_, queue_cv_,
                   worker_threads_, submitter>>
    /\ UNCHANGED <<ringVars, schedVars, engineVars, protoVars, raceVars,
                   chunkVars, edgeVars, serverVars>>

\* A step of worker w that the scheduler owes it.
TplWorkerStep(w) ==
    \/ TplLoopTest(w)
    \/ TplLock(w)
    \/ TplPredicate(w)
    \/ TplWait(w)
    \/ TplTake(w)
    \/ TplRun(w)

TemplateNext ==
    \/ \E w \in TplWorkers : TplLoopTest(w)
    \/ \E w \in TplWorkers : TplLock(w)
    \/ \E w \in TplWorkers : TplPredicate(w)
    \/ \E w \in TplWorkers : TplWait(w)
    \/ \E w \in TplWorkers : TplTake(w)
    \/ \E w \in TplWorkers : TplRun(w)
    \/ \E w \in TplWorkers : TplSpuriousWake(w)
    \/ TplSubmitPush
    \/ TplSubmitNotify
    \/ TplDtorStore
    \/ TplDtorNotify
    \/ TplDtorJoin

\* The constructor has stored running_ = true and started the workers.
InitTemplate ==
    /\ tpl_running_ = TRUE
    /\ task_queue_ = <<>>
    /\ queue_mutex_ = Unlocked
    /\ queue_cv_ = {}
    /\ worker_threads_ = [w \in TplWorkers |-> [pc |-> "loop", task |-> Null]]
    /\ submitter = [pc |-> "idle", submitted |-> 0]
    /\ tpl_dtor = [pc |-> "alive", i |-> 1]
    /\ RingIdle /\ SchedIdle /\ EngineIdle
    /\ ProtoIdle /\ RaceIdle /\ ChunkIdle /\ EdgeIdle /\ ServerIdle

\* Every thread that can take a step eventually takes one; a wake-up without
\* a notification is never owed.
TemplateFairness ==
    /\ \A w \in TplWorkers : WF_vars(TplWorkerStep(w))
    /\ WF_vars(TplSubmitNotify)
    /\ WF_vars(TplDtorNotify)
    /\ WF_vars(TplDtorJoin)

SpecTemplate == InitTemplate /\ [][TemplateNext]_vars /\ TemplateFairness

\* C33: once the destructor has started, every worker eventually leaves
\* worker_loop and the destructor returns.
C33_DestructorTerminates ==
    (tpl_dtor.pc # "alive")
        ~> (/\ tpl_dtor.pc = "done"
            /\ \A w \in TplWorkers : worker_threads_[w].pc = "exited")

\* ======================================================== scheduler claims
\* C11: for every sequence of samples fed to add_metrics_sample,
\* calculate_optimal_bitrate returns a value between 300 and 20000.
C11_BitrateWithinBounds ==
    /\ calculate_optimal_bitrate >= 300
    /\ calculate_optimal_bitrate <= 20000

\* Samples were fed and the unclamped bitrate lies above the ceiling.
C11_Witness ==
    /\ nSamples >= 2
    /\ Trunc(raw_bitrate) > 20000
    /\ calculate_optimal_bitrate = 20000


\* The bandwidths fed so far are non-negative and strictly increasing.
IncreasingFeed ==
    \A k \in DOMAIN FedBandwidths :
        /\ FedBandwidths[k] >= 0
        /\ k > 1 => FedBandwidths[k - 1] < FedBandwidths[k]

\* Bandwidth of the sample fed last.
LatestBandwidth == FedBandwidths[RB_size(metrics_buffer_)]

\* C12: starting from smoothed bandwidth 0, every call of add_metrics_sample
\* that extends a strictly increasing sequence of non-negative bandwidths
\* leaves the smoothed bandwidth at or above its value before the call and
\* at or below the sample just fed.
C12_SmoothedBandwidthMonotone ==
    [][(nSamples' = nSamples + 1 /\ IncreasingFeed')
         => /\ FLeq(smoothed_bandwidth_, smoothed_bandwidth_')
            /\ FLeq(smoothed_bandwidth_', <<LatestBandwidth', 1>>)]_vars

\* Two increasing samples were fed and the smoothed bandwidth lies strictly
\* between zero and the latest of them.
C12_Witness ==
    /\ nSamples = 2
    /\ IncreasingFeed
    /\ FedBandwidths[1] > 0
    /\ smoothed_bandwidth_[1] > 0
    /\ ~FLeq(<<LatestBandwidth, 1>>, smoothed_bandwidth_)

\* C14: the smoothed bandwidth and the smoothed latency are non-negative in
\* every reachable state, whatever samples add_metrics_sample was given.
C14_SmoothedNonNegative ==
    /\ smoothed_bandwidth_[1] >= 0
    /\ smoothed_latency_[1] >= 0

\* Total number of data bytes carried by a sequence of packets.
RECURSIVE DataBytes(_)
DataBytes(ps) ==
    IF ps = <<>> THEN 0 ELSE Head(ps).length + DataBytes(Tail(ps))

\* C15: the packets generate_packets returns for a payload of S bytes carry
\* S bytes in total; each but the last carries chunk_size bytes, the last
\* carries between 1 and chunk_size bytes, and an empty payload gives none.
C15_PacketsCoverPayload ==
    chunk_size # 0 =>
        /\ DataBytes(packets) = payload
        /\ \A k \in 1..(Len(packets) - 1) : packets[k].length = chunk_size
        /\ packets # <<>> =>
              /\ packets[Len(packets)].length >= 1
              /\ packets[Len(packets)].length <= chunk_size
        /\ payload = 0 => packets = <<>>

\* A payload was split into several packets, the last one short.
C15_Witness ==
    /\ chunk_size # 0
    /\ Len(packets) >= 2
    /\ packets[Len(packets)].length < chunk_size
    /\ DataBytes(packets) = payload

\* C16: in the packets generate_packets returns, the packet at 0-based
\* position k has priority 255 when k is a multiple of 100, 200 when k is a
\* multiple of 10 but not of 100, and 100 otherwise.
C16_PriorityByChunkIndex ==
    chunk_size # 0 =>
        \A k \in 0..(Len(packets) - 1) :
            packets[k + 1].priority =
                IF k % 100 = 0 THEN 255 ELSE IF k % 10 = 0 THEN 200 ELSE 100

\* C17: calculate_optimal_chunk_size returns a value between 1024 and 65536
\* for every smoothed latency and bandwidth the scheduler holds.
C17_ChunkSizeWithinBounds ==
    \A c \in calculate_optimal_chunk_size : c >= 1024 /\ c <= 65536

\* Samples were fed and the unclamped chunk size lies above the ceiling.
C17_Witness ==
    /\ nSamples >= 1
    /\ raw_chunk_size[1] > 65536 * raw_chunk_size[2]
    /\ calculate_optimal_chunk_size = {65536}

\* ============================================================ ring claims
\* C7: for every sequence of push and pop calls on a buffer of capacity
\* C >= 1, size() returns a value between 0 and C inclusive.
C7_SizeWithinCapacity ==
    /\ ring.capacity_ >= 1
    /\ RB_size(ring) \in 0..ring.capacity_

\* C7's case: a buffer that has wrapped around and is as full as it gets.
C7_Witness ==
    /\ ring.capacity_ >= 3
    /\ Len(popped) >= 1
    /\ lastOp.op = "push" /\ lastOp.ok
    /\ ~RB_push_ok(ring)

\* C8: the buffer is FIFO: the successful pops return exactly the items of
\* the successful pushes, in push order, none duplicated or skipped; what
\* has been pushed is what has been popped followed by what is stored.
C8_Fifo ==
    /\ pushed = popped \o RB_contents(ring)
    /\ (lastOp.op = "pop" /\ lastOp.ok) =>
           lastOp.item = pushed[Len(popped)]

\* C8's case: a pop of the second of two distinct stored items, after the
\* indices wrapped.
C8_Witness ==
    /\ lastOp.op = "pop" /\ lastOp.ok
    /\ Len(popped) >= 2
    /\ popped[1] # popped[2]
    /\ ring.head_ < lastOp.before.head_

\* C9: push returns false exactly when the buffer already holds C items,
\* and a failed push leaves head, tail and the stored items unchanged.
C9_PushFailsExactlyAtCapacity ==
    lastOp.op = "push" =>
        /\ (~lastOp.ok) <=> (lastOp.held = lastOp.before.capacity_)
        /\ (~lastOp.ok) => ring = lastOp.before

\* C10: once more than 100 samples have been recorded, the history holds
\* the 100 newest samples (the newly recorded sample is never discarded).
C10_HistoryKeepsNewest ==
    nSamples > MetricsCapacity =>
        HistoryStamps = (nSamples - MetricsCapacity + 1)..nSamples

\* ========================================================== engine claims
\* Tasks whose submit call has returned.
Returned ==
    {t \in 1..(nextFrame - 1) :
        \A p \in DOMAIN prod : ~(prod[p].pc = "link" /\ prod[p].new_node = t)}

\* Frames the last stage's processor has been handed, in order.
FinalStageFrames ==
    LET calls == SelectSeq(processor_calls, LAMBDA c : c[1] = Len(stages_))
    IN [k \in 1..Len(calls) |-> calls[k][2]]

\* Frames held in some stage's buffer.
InStages ==
    UNION {{RB_contents(stages_[k])[j] : j \in 1..RB_size(stages_[k])} :
              k \in 1..Len(stages_)}

\* Nothing is left to do but for the workers to poll their empty queues.
Quiescent ==
    /\ \A p \in DOMAIN prod : prod[p].pc = "idle"
    /\ \A q \in Queues : qhead[q] = qtail[q]
    /\ \A w \in Queues : worker[w].pc # "run"

\* C1: with stage capacities (5,3,2), every submitted frame (three, in
\* particular) reaches the final stage's processor exactly once, in
\* submission order: once the engine has nothing left to do, the final
\* stage has been handed frames 1, 2, ..., in that order.
C1_FramesReachFinalStage ==
    (running_ /\ Quiescent /\ nextFrame > 3) =>
        FinalStageFrames = [k \in 1..(nextFrame - 1) |-> k]

\* C2: process never silently drops a frame: a frame whose process call has
\* run is in a stage buffer, has been processed by the final stage, or its
\* rejection has been signalled to the caller.
C2_NoSilentDrop ==
    \A t \in DOMAIN executed :
        executed[t] >= 1 =>
            \/ t \in InStages
            \/ \E k \in 1..Len(FinalStageFrames) : FinalStageFrames[k] = t
            \/ t \in signalled

\* C3: no task is executed more than once, whatever the interleaving of
\* the producers' submit calls and the workers' pops.
C3_AtMostOnce ==
    \A t \in DOMAIN executed : executed[t] <= 1

\* C3's case: a task popped from a queue has run once while a producer is
\* part-way through pushing the next task behind it (tail_ exchanged, the
\* popped node's next not yet stored).
C3_Witness ==
    \E p \in DOMAIN prod, w \in Queues :
        /\ prod[p].pc = "link"
        /\ prod[p].old_tail = qhead[w]
        /\ qhead[w] \in DOMAIN executed
        /\ executed[qhead[w]] = 1

\* C4: every task whose submit call returned is executed, also the tasks
\* still queued when the destructor clears running_: once the destructor
\* has returned, no returned task is left unexecuted.
C4_ReturnedTasksExecuted ==
    dtor.pc = "done" => \A t \in Returned : executed[t] >= 1

\* C5: a submit call made after running_ became false is rejected with an
\* explicit error and enqueues nothing.
C5_SubmitAfterShutdownRejected ==
    [][(~running_ /\ nextFrame' # nextFrame) =>
          (qtail' = qtail /\ nodes' = nodes /\ signalled' # signalled)]_vars

\* C6: submit never pushes the task onto the sampled queue that holds
\* strictly more pending tasks than the other sampled queue.
C6_LessLoadedQueueChosen ==
    [][\A p \in DOMAIN prod :
          (prod[p].pc = "idle" /\ prod'[p].pc = "link") =>
              \A chosen \in {prod'[p].q1, prod'[p].q2} :
                  \A other \in {prod'[p].q1, prod'[p].q2} :
                      qtail'[chosen] # qtail[chosen] =>
                          Pending(chosen) <= Pending(other)]_vars

====
